---- MODULE Spec2Model ----
(***************************************************************************)
(* Availability / pricing engine of the fleet availability dashboard       *)
(* (AvailabilityTable: getStatus, getPriceForDuration).                    *)
(*                                                                         *)
(* Representation of JavaScript values:                                    *)
(*   - a value that may be undefined is <<>> (undefined) or <<v>>;         *)
(*   - a Date is a day number counted from 2026-01-01 (a Thursday); the    *)
(*     calendar fields are computed from it;                               *)
(*   - an object used as a map is a function whose domain is a set of      *)
(*     strings; a missing key reads as undefined (falsy);                  *)
(*   - numerals of the price tiers are held as their decimal strings       *)
(*     (parseInt / parseFloat stringify their argument first);             *)
(*   - a number that may be fractional is a reduced fraction               *)
(*     [num, den]; den = 0 is NaN.                                         *)
(***************************************************************************)
EXTENDS Integers, Sequences, FiniteSets, TLC

VARIABLES
    bike,            \* the unit passed to getStatus / getPriceForDuration
    globalSettings,  \* { closures, disabledDatesGlobal }
    date,            \* getStatus: the date argument of the last call (<<>> before any)
    status,          \* getStatus: the value returned by the last call
    days,            \* getPriceForDuration: the duration argument of the last call
    tier,            \* getPriceForDuration: the local `tier` of the last call
    price,           \* getPriceForDuration: the value returned by the last call
    bikes,           \* App state: the bike list (the table's `bikes` prop)
    duration,        \* App state: the rental duration selected
    sortOrder,       \* App state: the sort directive
    selectedDates,   \* AvailabilityTable state: the keys of the selected dates
    shown,           \* AvailabilityTable: the memoised sortedBikes of the last render
    exampleData,     \* loadData: the parsed example.json (<<>> before it is fetched)
    imageMap,        \* loadData: the result of fetchProductImages
    initialData,     \* loadData: the value extractBikeMetadata returned
    data,            \* App state: { lastUpdated } (<<>> while null)
    error,           \* App state: the error message (<<>> while null)
    loadingStatus,   \* App state: { loaded, total, isComplete }
    pc,              \* loadData / fetchBookingsProgressively: the await it is suspended at
    loopIndex,       \* fetchBookingsProgressively: the loop variable i
    trace            \* the callbacks and requests of the load so far, in order

engineVars == <<bike, date, status, days, tier, price>>
tableVars == <<bikes, duration, sortOrder, selectedDates, shown>>
loadVars == <<exampleData, imageMap, initialData, data, error, loadingStatus,
              pc, loopIndex, trace>>
vars == <<bike, globalSettings, date, status, days, tier, price,
          bikes, duration, sortOrder, selectedDates, shown,
          exampleData, imageMap, initialData, data, error, loadingStatus,
          pc, loopIndex, trace>>

\* ------------------------------------------------------------- bounds
\* First day shown by the table (new Date()), as a day number: 2026-02-26.
Today == 56
\* Number of date columns (the component's `days` prop, 30 by default).
NumDates == 8
\* Largest number of keys of a booking response.
MaxBookingKeys == 1
\* Largest number of price tiers of a unit.
MaxTiers == 3
\* Largest rental duration asked for.
MaxDuration == 15
\* Largest numeral the price tiers hold.
MaxNumeral == 160
\* Largest number of units of the fleet.
MaxBikes == 3
\* Number of leading date columns whose headers get clicked.
MaxClicked == 4

\* ------------------------------------------------------------- undefined
Undefined == <<>>
Some(v) == <<v>>
IsUndefined(o) == o = <<>>
Get(o) == o[1]

\* ------------------------------------------------------------- Date
IsLeap(y) == (y % 4 = 0 /\ y % 100 # 0) \/ y % 400 = 0

DaysInMonth(y, m) ==
    IF m = 2 THEN (IF IsLeap(y) THEN 29 ELSE 28)
    ELSE IF m \in {4, 6, 9, 11} THEN 30 ELSE 31

RECURSIVE Civil(_, _, _)
\* The calendar date n days after the first of month m (1-based) of year y.
Civil(y, m, n) ==
    IF n < DaysInMonth(y, m)
    THEN [year |-> y, month |-> m, day |-> n + 1]
    ELSE IF m = 12 THEN Civil(y + 1, 1, n - DaysInMonth(y, m))
         ELSE Civil(y, m + 1, n - DaysInMonth(y, m))

getFullYear(d) == Civil(2026, 1, d).year
\* Date.prototype.getMonth is 0-based.
getMonth(d) == Civil(2026, 1, d).month - 1
getDate(d) == Civil(2026, 1, d).day
\* 0 = Sunday .. 6 = Saturday; 2026-01-01 is a Thursday.
getDay(d) == (d + 4) % 7

addDays(d, i) == d + i

Pad2(n) == IF n < 10 THEN "0" \o ToString(n) ELSE ToString(n)

\* format(date, 'yyyy')
format_yyyy(d) == ToString(getFullYear(d))
\* format(date, 'yyyy/MM/dd') with sep = "/", format(date, 'yyyy-MM-dd') with sep = "-"
format_yyyyMMdd(d, sep) ==
    format_yyyy(d) \o sep \o Pad2(getMonth(d) + 1) \o sep \o Pad2(getDate(d))

\* The date columns of the table.
dates == {addDays(Today, i) : i \in 0 .. NumDates - 1}

\* ------------------------------------------------------------- evaluation
\* The element of a set of one element. {f(x) : x \in {e}} works e out once,
\* however often f reads x.
The(S) == CHOOSE r \in S : TRUE

\* ------------------------------------------------------------- numbers
RECURSIVE GCD(_, _)
GCD(a, b) == IF b = 0 THEN a ELSE GCD(b, a % b)

Abs(n) == IF n < 0 THEN -n ELSE n

\* The number n / d: 0/0 is NaN, 1/0 is Infinity, -1/0 is -Infinity.
Frac(n, d) ==
    IF n = 0 /\ d = 0 THEN [num |-> 0, den |-> 0]
    ELSE LET g == GCD(Abs(n), Abs(d))
             s == IF d < 0 THEN -1 ELSE 1
         IN  [num |-> s * (n \div g), den |-> s * (d \div g)]

Num(n) == Frac(n, 1)
NaN == Frac(0, 0)
Infinity == Frac(1, 0)
isNaN(a) == a.num = 0 /\ a.den = 0

Mul(a, b) == Frac(a.num * b.num, a.den * b.den)
Div(a, b) == Frac(a.num * b.den, a.den * b.num)
\* a <= b and a >= b; every comparison with NaN is false.
Leq(a, b) == ~isNaN(a) /\ ~isNaN(b) /\ a.num * b.den <= b.num * a.den
Geq(a, b) == Leq(b, a)

\* The decimal numerals of 0 .. MaxNumeral.
Numerals == [n \in 0 .. MaxNumeral |-> ToString(n)]

\* The number a string of decimal digits denotes; NaN for any other string.
numeralValue(text) ==
    IF \E n \in DOMAIN Numerals : Numerals[n] = text
    THEN Num(CHOOSE n \in DOMAIN Numerals : Numerals[n] = text)
    ELSE NaN

\* parseInt of a decimal numeral; NaN for any other string.
parseInt(s) == The({numeralValue(text) : text \in {s}})

\* parseFloat, on the numerals the tiers hold.
parseFloat(s) == The({numeralValue(text) : text \in {s}})

\* ------------------------------------------------------------- getStatus
\* obj[key] read for its truthiness: a missing key is undefined.
Truthy(obj, key) == key \in DOMAIN obj /\ obj[key] = TRUE

isHoliday_zeroBasedMonth(gs, d) ==
    LET year == format_yyyy(d)
        month == ToString(getMonth(d))
        dayNumeric == getDate(d)
        dg == gs.disabledDatesGlobal
    IN  /\ year \in DOMAIN dg
        /\ month \in DOMAIN dg[year]
        /\ dayNumeric \in dg[year][month]

\* globalSettings.disabledDatesGlobal[year]?.[month]?.includes(dayNumeric)
isHoliday(gs, d) ==
    LET year == format_yyyy(d)
        month == ToString(getMonth(d) + 1)
        dayNumeric == getDate(d)
        dg == gs.disabledDatesGlobal
    IN  /\ year \in DOMAIN dg
        /\ month \in DOMAIN dg[year]
        /\ dayNumeric \in dg[year][month]

isStoreClosed(gs, d) == getDay(d) \in gs.closures \/ isHoliday(gs, d)

isBooked_noEndKey(b, d) ==
    LET yearMonthDay == format_yyyyMMdd(d, "/")
    IN  /\ ~IsUndefined(b.bookings)
        /\ \/ Truthy(Get(b.bookings), yearMonthDay)
           \/ Truthy(Get(b.bookings), yearMonthDay \o "_start")

isBooked(b, d) ==
    LET yearMonthDay == format_yyyyMMdd(d, "/")
    IN  /\ ~IsUndefined(b.bookings)
        /\ \/ Truthy(Get(b.bookings), yearMonthDay)
           \/ Truthy(Get(b.bookings), yearMonthDay \o "_start")
           \/ Truthy(Get(b.bookings), yearMonthDay \o "_end")

isHalfDay_friday(d) == getDay(d) = 5

isHalfDay(d) == getDay(d) = 6

getStatus_loadingFlagOnly(b, gs, d) ==
    IF b.isLoading THEN "loading"
    ELSE IF isBooked(b, d) THEN "booked"
    ELSE IF isStoreClosed(gs, d) THEN "closed"
    ELSE IF isHalfDay(d) THEN "half"
    ELSE "available"

getStatus_closedFirst(b, gs, d) ==
    IF b.isLoading \/ IsUndefined(b.bookings) THEN "loading"
    ELSE IF isStoreClosed(gs, d) THEN "closed"
    ELSE IF isBooked(b, d) THEN "booked"
    ELSE IF isHalfDay(d) THEN "half"
    ELSE "available"

getStatus_noHalfDay(b, gs, d) ==
    IF b.isLoading \/ IsUndefined(b.bookings) THEN "loading"
    ELSE IF isBooked(b, d) THEN "booked"
    ELSE IF isStoreClosed(gs, d) THEN "closed"
    ELSE "available"

getStatus_pendingAsAvailable(b, gs, d) ==
    IF b.isLoading \/ IsUndefined(b.bookings) THEN "available"
    ELSE IF isBooked(b, d) THEN "booked"
    ELSE IF isStoreClosed(gs, d) THEN "closed"
    ELSE IF isHalfDay(d) THEN "half"
    ELSE "available"

getStatus(b, gs, d) ==
    IF b.isLoading \/ IsUndefined(b.bookings) THEN "loading"
    ELSE IF isBooked(b, d) THEN "booked"
    ELSE IF isStoreClosed(gs, d) THEN "closed"
    ELSE IF isHalfDay(d) THEN "half"
    ELSE "available"

\* getStatus of the table that is given the aggregated `data` (no loading state).
getStatusLegacy(b, gs, d) ==
    IF isBooked(b, d) THEN "booked"
    ELSE IF isStoreClosed(gs, d) THEN "closed"
    ELSE IF isHalfDay(d) THEN "half"
    ELSE "available"

\* ------------------------------------------------------------- getPriceForDuration
\* The callback of bike.pricing.find: is p the tier of a rental of `n` days?
tierApplies(p, n) ==
    IF p.days = "default" THEN FALSE
    ELSE LET from == parseInt(p.days)
             to == IF p.to = "default" THEN Infinity ELSE parseInt(p.to)
         IN  Geq(Num(n), from) /\ Leq(Num(n), to)

findTier_lastMatch(pricing, n) ==
    LET hits == {i \in 1 .. Len(pricing) : tierApplies(pricing[i], n)}
    IN  IF hits = {} THEN Undefined
        ELSE Some(pricing[CHOOSE i \in hits : \A j \in hits : i >= j])

\* bike.pricing.find(p => ...): the first element the callback accepts, or undefined.
findTier(pricing, n) ==
    LET hits == {i \in 1 .. Len(pricing) : tierApplies(pricing[i], n)}
    IN  IF hits = {} THEN Undefined
        ELSE Some(pricing[CHOOSE i \in hits : \A j \in hits : i <= j])

\* bike.pricing.find(p => p.days === 'default')
findDefaultTier(pricing) ==
    LET hits == {i \in 1 .. Len(pricing) : pricing[i].days = "default"}
    IN  IF hits = {} THEN Undefined
        ELSE Some(pricing[CHOOSE i \in hits : \A j \in hits : i <= j])

weeksOf_wholeWeeks(n) == Num(n \div 7)

\* const weeks = days / 7
weeksOf(n) == Div(Num(n), Num(7))

isWeeklyTier_anyTier(t) == Geq(parseInt(t.days), Num(1))

\* tierStart >= 7
isWeeklyTier(t) == Geq(parseInt(t.days), Num(7))

\* The value of the local `tier` when getPriceForDuration returns
\* (undefined when it returns before the search).
tierOf(b, n) ==
    IF IsUndefined(b.pricing) \/ Len(Get(b.pricing)) = 0 THEN Undefined
    ELSE findTier(Get(b.pricing), n)

getPriceForDuration_defaultFlat(b, n) ==
    IF IsUndefined(b.pricing) \/ Len(Get(b.pricing)) = 0 THEN Num(0)
    ELSE LET t == findTier(Get(b.pricing), n)
             defaultTier == findDefaultTier(Get(b.pricing))
         IN  IF ~IsUndefined(t)
             THEN LET tierPrice == parseFloat(Get(t).price)
                  IN  IF isWeeklyTier(Get(t))
                      THEN Mul(tierPrice, weeksOf(n))
                      ELSE tierPrice
             ELSE IF ~IsUndefined(defaultTier)
             THEN parseFloat(Get(defaultTier).price)
             ELSE Num(0)

getPriceForDuration_noFinalReturn(b, n) ==
    IF IsUndefined(b.pricing) \/ Len(Get(b.pricing)) = 0 THEN Num(0)
    ELSE LET t == findTier(Get(b.pricing), n)
             defaultTier == findDefaultTier(Get(b.pricing))
         IN  IF ~IsUndefined(t)
             THEN LET tierPrice == parseFloat(Get(t).price)
                  IN  IF isWeeklyTier(Get(t))
                      THEN Mul(tierPrice, weeksOf(n))
                      ELSE tierPrice
             ELSE IF ~IsUndefined(defaultTier)
             THEN Mul(parseFloat(Get(defaultTier).price), Num(n))
             ELSE NaN

getPriceForDuration_notFoundSentinel(b, n) ==
    IF IsUndefined(b.pricing) \/ Len(Get(b.pricing)) = 0 THEN Num(-1)
    ELSE LET t == findTier(Get(b.pricing), n)
             defaultTier == findDefaultTier(Get(b.pricing))
         IN  IF ~IsUndefined(t)
             THEN LET tierPrice == parseFloat(Get(t).price)
                  IN  IF isWeeklyTier(Get(t))
                      THEN Mul(tierPrice, weeksOf(n))
                      ELSE tierPrice
             ELSE IF ~IsUndefined(defaultTier)
             THEN Mul(parseFloat(Get(defaultTier).price), Num(n))
             ELSE Num(-1)

getPriceForDuration(b, n) ==
    IF IsUndefined(b.pricing) \/ Len(Get(b.pricing)) = 0 THEN Num(0)
    ELSE LET t == findTier(Get(b.pricing), n)
             defaultTier == findDefaultTier(Get(b.pricing))
         IN  IF ~IsUndefined(t)
             THEN LET tierPrice == parseFloat(Get(t).price)
                  IN  IF isWeeklyTier(Get(t))
                      THEN Mul(tierPrice, weeksOf(n))
                      ELSE tierPrice
             ELSE IF ~IsUndefined(defaultTier)
             THEN Mul(parseFloat(Get(defaultTier).price), Num(n))
             ELSE Num(0)

\* ------------------------------------------------------------- inputs
\* A key of the booking service's response for date d.
ResponseKey(d, suffix) ==
    LET c == Civil(2026, 1, d)
    IN  ToString(c.year) \o "/" \o Pad2(c.month) \o "/" \o Pad2(c.day) \o suffix

KeySuffixes == {"", "_start", "_end"}
ResponseKeys == {ResponseKey(d, s) : d \in dates, s \in KeySuffixes}

RECURSIVE KeySets(_)
\* The sets of at most k response keys.
KeySets(k) ==
    IF k = 0 THEN {{}}
    ELSE LET smaller == KeySets(k - 1)
         IN  smaller \cup {S \cup {x} : S \in smaller, x \in ResponseKeys}

\* The responses of the booking service: maps from keys to flags.
BookingResponses == UNION {[S -> BOOLEAN] : S \in KeySets(MaxBookingKeys)}

\* disabledDatesGlobal holding the holidays T, a set of <<year, month, day>>.
DisabledDates(T) ==
    [y \in {ToString(t[1]) : t \in T} |->
        [m \in {ToString(t[2]) : t \in {u \in T : ToString(u[1]) = y}} |->
            {t[3] : t \in {u \in T : ToString(u[1]) = y /\ ToString(u[2]) = m}}]]

HolidaySets ==
    { {},
      {<<2026, 2, 27>>, <<2026, 2, 28>>, <<2025, 2, 26>>},
      {<<2026, 3, 1>>, <<2026, 3, 2>>, <<2026, 3, 26>>} }

ClosureSets == { {0}, {}, {0, 6}, {4} }

\* extractGlobalSettings without closure data in the catalog.
DefaultSettings == [closures |-> {0}, disabledDatesGlobal |-> DisabledDates({})]

SettingsUniverse ==
    {[closures |-> c, disabledDatesGlobal |-> DisabledDates(T)] :
        c \in ClosureSets, T \in HolidaySets}

RangedTier(from, to, p) ==
    [days |-> ToString(from), to |-> ToString(to), price |-> ToString(p)]
OpenTier(from, p) ==
    [days |-> ToString(from), to |-> "default", price |-> ToString(p)]
DefaultTier(p) ==
    [days |-> "default", to |-> "default", price |-> ToString(p)]

TierUniverse ==
    { RangedTier(1, 6, 110), RangedTier(7, 13, 160), RangedTier(8, 14, 148),
      RangedTier(3, 14, 90), OpenTier(7, 140), DefaultTier(50) }

RECURSIVE TierLists(_)
\* The sequences of at most k tiers.
TierLists(k) ==
    IF k = 0 THEN {<<>>}
    ELSE LET shorter == TierLists(k - 1)
         IN  shorter \cup {Append(l, t) : l \in shorter, t \in TierUniverse}

\* A unit as extractBikeMetadata builds it, with the fields the engine reads.
Bike(pricing, bookings, isLoading) ==
    [pricing |-> pricing, bookings |-> bookings, isLoading |-> isLoading]

StatusBikes ==
    {Bike(Some(<<>>), bk, l) :
        bk \in {Undefined} \cup {Some(r) : r \in BookingResponses}, l \in BOOLEAN}

\* pricing is the catalog's price list; a unit without one has none (undefined).
PriceBikes ==
    {Bike(pr, Undefined, TRUE) :
        pr \in {Undefined} \cup {Some(l) : l \in TierLists(MaxTiers)}}

\* ------------------------------------------------------------- specifications
NoCall ==
    /\ date = Undefined /\ status = ""
    /\ days = 0 /\ tier = Undefined /\ price = Num(0)

\* The App before any data is loaded: no table is rendered.
NoTable ==
    /\ bikes = <<>> /\ duration = 1 /\ sortOrder = "asc"
    /\ selectedDates = {} /\ shown = <<>>

\* No load is under way: the state the App hooks start with.
NoLoad ==
    /\ exampleData = Undefined
    /\ imageMap = [h \in {} |-> ""]
    /\ initialData = Undefined
    /\ data = Undefined
    /\ error = Undefined
    /\ loadingStatus = [loaded |-> 0, total |-> 0, isComplete |-> FALSE]
    /\ pc = "idle"
    /\ loopIndex = 0
    /\ trace = <<>>

\* getStatus(bike, date), once per cell of the table.
GetStatus ==
    \E d \in dates :
        /\ date' = Some(d)
        /\ status' = getStatus(bike, globalSettings, d)
        /\ UNCHANGED <<bike, globalSettings, days, tier, price>>
        /\ UNCHANGED tableVars
        /\ UNCHANGED loadVars

\* getPriceForDuration(bike, duration), once per row of the table.
GetPriceForDuration ==
    \E n \in 1 .. MaxDuration :
        /\ days' = n
        /\ tier' = tierOf(bike, n)
        /\ price' = getPriceForDuration(bike, n)
        /\ UNCHANGED <<bike, globalSettings, date, status>>
        /\ UNCHANGED tableVars
        /\ UNCHANGED loadVars

InitStatus ==
    /\ bike \in StatusBikes
    /\ globalSettings \in SettingsUniverse
    /\ NoCall
    /\ NoTable
    /\ NoLoad

SpecStatus == InitStatus /\ [][GetStatus]_vars

InitPrice ==
    /\ bike \in PriceBikes
    /\ globalSettings = DefaultSettings
    /\ NoCall
    /\ NoTable
    /\ NoLoad

SpecPrice == InitPrice /\ [][GetPriceForDuration]_vars

Init == InitStatus \/ InitPrice
Next == GetStatus \/ GetPriceForDuration
Spec == Init /\ [][Next]_vars

\* ------------------------------------------------------------- properties of getStatus
\* The facts of the last getStatus call, stated on its inputs.
StatusCalled == date # Undefined
TheDate == Get(date)
Pending == bike.isLoading \/ bike.bookings = Undefined
\* The response holds a true flag under one of the three keys of date d.
BookedOn(d) ==
    /\ bike.bookings # Undefined
    /\ \E s \in KeySuffixes :
          /\ ResponseKey(d, s) \in DOMAIN Get(bike.bookings)
          /\ Get(bike.bookings)[ResponseKey(d, s)] = TRUE
WeeklyClosed(d) == getDay(d) \in globalSettings.closures
\* (year, 1-based month, day of month) of d is listed in the holiday overrides.
ListedHoliday(d) ==
    LET c == Civil(2026, 1, d)
        dg == globalSettings.disabledDatesGlobal
    IN  \E y \in DOMAIN dg : \E m \in DOMAIN dg[y] :
            /\ y = ToString(c.year)
            /\ m = ToString(c.month)
            /\ c.day \in dg[y][m]
ClosedOn(d) == WeeklyClosed(d) \/ ListedHoliday(d)
Saturday(d) == getDay(d) = 6
Sunday(d) == getDay(d) = 0

C2_Precedence ==
    (StatusCalled /\ ~Pending) =>
        LET expected ==
                IF BookedOn(TheDate) THEN "booked"
                ELSE IF ClosedOn(TheDate) THEN "closed"
                ELSE IF Saturday(TheDate) THEN "half"
                ELSE "available"
        IN  /\ status = expected
            /\ getStatusLegacy(bike, globalSettings, TheDate) = expected

\* C2 witness: a Saturday that is a weekly closure day and is booked under the
\* _end key is 'booked'.
C2_Witness ==
    /\ StatusCalled /\ ~Pending
    /\ Saturday(TheDate) /\ WeeklyClosed(TheDate)
    /\ DOMAIN Get(bike.bookings) = {ResponseKey(TheDate, "_end")}
    /\ status = "booked"

\* C3: for a non-pending unit a date is booked if and only if the booking map
\* holds a truthy value under YYYY/MM/DD, YYYY/MM/DD_start or YYYY/MM/DD_end of
\* that date; keys of other dates never make it booked.
C3_BookedIffKey ==
    (StatusCalled /\ ~Pending) =>
        (status = "booked" <=> BookedOn(TheDate))

\* C3 witness: a map whose only key is the _start key of the date makes it booked.
C3_Witness ==
    /\ StatusCalled /\ ~Pending
    /\ DOMAIN Get(bike.bookings) = {ResponseKey(TheDate, "_start")}
    /\ Get(bike.bookings)[ResponseKey(TheDate, "_start")] = TRUE
    /\ status = "booked"

\* C4: for a non-pending unit and an unbooked date, the status is 'closed' if
\* and only if the weekday is in the weekly closure set or the date is listed
\* in the holiday overrides; with the closure set {0} every unbooked Sunday is
\* 'closed'.
C4_ClosedIff ==
    (StatusCalled /\ ~Pending /\ ~BookedOn(TheDate)) =>
        /\ status = "closed" <=> ClosedOn(TheDate)
        /\ (globalSettings.closures = {0} /\ Sunday(TheDate)) => status = "closed"

\* C4 witness: a date closed by a holiday override alone (its weekday is open).
C4_Witness ==
    /\ StatusCalled /\ ~Pending /\ ~BookedOn(TheDate)
    /\ ListedHoliday(TheDate) /\ ~WeeklyClosed(TheDate)
    /\ status = "closed"

\* C4, second case: weekly closure and holiday both apply, one status 'closed'.
C4_BothApply ==
    /\ StatusCalled /\ ~Pending /\ ~BookedOn(TheDate)
    /\ ListedHoliday(TheDate) /\ WeeklyClosed(TheDate)
    /\ status = "closed"

\* C5: a Saturday that is neither booked nor closed is 'half'.
C5_SaturdayHalf ==
    (StatusCalled /\ ~Pending /\ Saturday(TheDate)
        /\ ~BookedOn(TheDate) /\ ~ClosedOn(TheDate)) => status = "half"

\* C5 witness: an open, unbooked Saturday classified 'half'.
C5_Witness ==
    /\ StatusCalled /\ ~Pending /\ Saturday(TheDate)
    /\ ~BookedOn(TheDate) /\ ~ClosedOn(TheDate)
    /\ status = "half"

PriceCalled == days # 0
Tiers == IF bike.pricing = Undefined THEN <<>> ELSE Get(bike.pricing)
\* The number a tier field holds as a numeral.
NumberOf(str) == CHOOSE v \in 0 .. MaxNumeral : ToString(v) = str
\* t is a ranged tier with start <= n <= end, an end of 'default' being unbounded.
Matches(t, n) ==
    /\ t.days # "default"
    /\ \E from \in 0 .. n : t.days = ToString(from)
    /\ \/ t.to = "default"
       \/ \E to \in n .. MaxNumeral : t.to = ToString(to)
MatchingIndexes == {i \in 1 .. Len(Tiers) : Matches(Tiers[i], days)}
FirstMatching == CHOOSE i \in MatchingIndexes : \A j \in MatchingIndexes : i <= j
\* The price is the tier's listed price.
IsTierTotal(t) == price = [num |-> NumberOf(t.price), den |-> 1]
\* 7 * price = tierPrice * duration, in exact arithmetic.
IsWeeklyRate(t) ==
    /\ price.den # 0
    /\ 7 * price.num = NumberOf(t.price) * days * price.den

\* C7: the tier selected is the first one in sequence order with start not
\* 'default' and start <= duration <= end; of several overlapping tiers the
\* earliest determines the price, and an earlier 'default' tier never pre-empts
\* a matching ranged tier.
C7_FirstMatchWins ==
    PriceCalled =>
        IF MatchingIndexes # {}
        THEN /\ tier = Some(Tiers[FirstMatching])
             /\ IF NumberOf(Tiers[FirstMatching].days) >= 7
                THEN IsWeeklyRate(Tiers[FirstMatching])
                ELSE IsTierTotal(Tiers[FirstMatching])
        ELSE tier = Undefined

\* C7 witness: a 'default' tier first, then two ranged tiers that both match 14
\* days and give different prices: the first ranged one is selected.
C7_Witness ==
    /\ PriceCalled /\ days = 14
    /\ Tiers = <<DefaultTier(50), RangedTier(8, 14, 148), OpenTier(7, 140)>>
    /\ tier = Some(RangedTier(8, 14, 148))
    /\ price = [num |-> 296, den |-> 1]

\* C8: when the selected tier starts at 7 days or more, the price p satisfies
\* 7 * p = tierPrice * duration (real division): {7..13, 160} at 7 days is 160,
\* {8..14, 148} at 14 days is 296, and 10 days is tierPrice * 10 / 7.
C8_WeeklyRate ==
    (PriceCalled /\ tier # Undefined /\ NumberOf(Get(tier).days) >= 7) =>
        /\ IsWeeklyRate(Get(tier))
        /\ (tier = Some(RangedTier(7, 13, 160)) /\ days = 7) =>
              price = [num |-> 160, den |-> 1]
        /\ (tier = Some(RangedTier(8, 14, 148)) /\ days = 14) =>
              price = [num |-> 296, den |-> 1]
        /\ (tier = Some(RangedTier(7, 13, 160)) /\ days = 10) =>
              price = [num |-> 1600, den |-> 7]

\* C8 witness: 10 days in the tier {7..13, 160} cost 1600/7, a fraction.
C8_Witness ==
    /\ PriceCalled /\ days = 10
    /\ tier = Some(RangedTier(7, 13, 160))
    /\ price = [num |-> 1600, den |-> 7]

C10_DurationDecides ==
    (PriceCalled /\ tier # Undefined) =>
        IF days <= 6 THEN IsTierTotal(Get(tier)) ELSE IsWeeklyRate(Get(tier))

\* The indexes of the tiers whose start is 'default'.
DefaultIndexes == {i \in 1 .. Len(Tiers) : Tiers[i].days = "default"}
FirstDefault == CHOOSE i \in DefaultIndexes : \A j \in DefaultIndexes : i <= j

\* C11: when no ranged tier matches the duration and a 'default' tier is
\* present, the price is defaultPrice * duration (only {default, 50} at 3 days
\* is 150); the default tier is used only when no ranged tier matches.
C11_DefaultDailyRate ==
    (PriceCalled /\ DefaultIndexes # {}) =>
        IF MatchingIndexes = {}
        THEN price = [num |-> NumberOf(Tiers[FirstDefault].price) * days, den |-> 1]
        ELSE /\ tier = Some(Tiers[FirstMatching])
             /\ IsWeeklyRate(Get(tier)) \/ IsTierTotal(Get(tier))

\* C11 witness: a ranged tier that does not match 3 days, then {default, 50}:
\* the price is 150.
C11_Witness ==
    /\ PriceCalled /\ days = 3
    /\ Tiers = <<RangedTier(7, 13, 160), DefaultTier(50)>>
    /\ tier = Undefined
    /\ price = [num |-> 150, den |-> 1]

\* C12: the price is 0 when the unit's price-tier data is missing or empty, and
\* when neither a ranged tier matches the duration nor a 'default' tier exists.
C12_ZeroWithoutTier ==
    (PriceCalled /\ MatchingIndexes = {} /\ DefaultIndexes = {}) =>
        price = [num |-> 0, den |-> 1]

\* C12 witness: tiers are present, none matches 2 days and none is 'default'.
C12_Witness ==
    /\ PriceCalled /\ days = 2
    /\ Tiers = <<RangedTier(7, 13, 160), RangedTier(3, 14, 90)>>
    /\ price = [num |-> 0, den |-> 1]

\* C12, further cases: the price list is missing; the price list is empty.
C12_MissingPricing ==
    PriceCalled /\ bike.pricing = Undefined /\ price = [num |-> 0, den |-> 1]
C12_EmptyPricing ==
    PriceCalled /\ bike.pricing = Some(<<>>) /\ price = [num |-> 0, den |-> 1]

CollationOrder ==
    << " ", "-", "0", "1", "2", "3", "4", "5", "6", "7", "8", "9",
       "A", "B", "C", "D", "E", "F", "G", "H", "I", "J", "K", "L", "M",
       "N", "O", "P", "Q", "R", "S", "T", "U", "V", "W", "X", "Y", "Z" >>

CharRank(c) == CHOOSE i \in 1 .. Len(CollationOrder) : CollationOrder[i] = c

RECURSIVE localeCompare(_, _)
\* a.localeCompare(b): negative, zero or positive.
localeCompare(a, b) ==
    IF a = <<>> /\ b = <<>> THEN 0
    ELSE IF a = <<>> THEN -1
    ELSE IF b = <<>> THEN 1
    ELSE IF CharRank(Head(a)) < CharRank(Head(b)) THEN -1
    ELSE IF CharRank(Head(a)) > CharRank(Head(b)) THEN 1
    ELSE localeCompare(Tail(a), Tail(b))

\* ------------------------------------------------------------- sortedBikes
Sub(a, b) == Frac(a.num * b.den - b.num * a.den, a.den * b.den)
\* The sign of a number as the sort reads it (NaN is not below zero).
Sign(a) == IF a.num < 0 THEN -1 ELSE IF a.num > 0 THEN 1 ELSE 0

\* priceA - priceB under 'asc', priceB - priceA under 'desc', as the sort reads it.
priceOrder(so, priceA, priceB) ==
    IF so = "asc" THEN Sign(Sub(priceA, priceB)) ELSE Sign(Sub(priceB, priceA))

\* The comparator given to sort.
compareBikes(a, b, so, dur) ==
    IF so = "asc" \/ so = "desc"
    THEN The({priceOrder(so, priceA, priceB) :
                 priceA \in {getPriceForDuration(a, dur)},
                 priceB \in {getPriceForDuration(b, dur)}})
    ELSE localeCompare(a.name, b.name)

\* x put into the sequence `done` at place `at`.
insertAt(done, x, at) ==
    SubSeq(done, 1, at - 1) \o <<x>> \o SubSeq(done, at, Len(done))

\* The least of a set of places, n when it is empty.
firstOr(S, n) == IF S = {} THEN n ELSE CHOOSE k \in S : \A m \in S : k <= m

insertSorted_unstable(done, x, so, dur) ==
    The({insertAt(done, x, firstOr(above, Len(done) + 1)) :
            above \in {{k \in 1 .. Len(done) : compareBikes(x, done[k], so, dur) <= 0}}})

\* x put into the sorted sequence `done`, before the first element it is below.
insertSorted(done, x, so, dur) ==
    The({insertAt(done, x, firstOr(above, Len(done) + 1)) :
            above \in {{k \in 1 .. Len(done) : compareBikes(x, done[k], so, dur) < 0}}})

RECURSIVE sortBikes(_, _, _)
\* Array.prototype.sort with compareBikes: a stable sort.
sortBikes(bs, so, dur) ==
    IF bs = <<>> THEN <<>>
    ELSE The({insertSorted(done, x, so, dur) :
                 done \in {sortBikes(SubSeq(bs, 1, Len(bs) - 1), so, dur)},
                 x \in {bs[Len(bs)]}})

isFreeOnSelected_everyDate(b, gs, sel) ==
    \A d \in dates :
        format_yyyyMMdd(d, "-") \in sel =>
            getStatus(b, gs, d) \in {"available", "half"}

\* The callback of the date filter: dates.some(date => ...)
isFreeOnSelected(b, gs, sel) ==
    \E d \in dates :
        /\ format_yyyyMMdd(d, "-") \in sel
        /\ getStatus(b, gs, d) \in {"available", "half"}

filterBikes(bs, gs, sel) ==
    IF Cardinality(sel) > 0
    THEN LET keep(b) == isFreeOnSelected(b, gs, sel) IN SelectSeq(bs, keep)
    ELSE bs

\* The memoised sortedBikes.
sortedBikes(bs, gs, dur, so, sel) ==
    The({sortBikes(filteredBikes, so, dur) : filteredBikes \in {filterBikes(bs, gs, sel)}})

nextSortOrder_threeWay(so) ==
    IF so = "asc" THEN "desc" ELSE IF so = "desc" THEN "name" ELSE "asc"

\* toggleSort: the directive given to onSortChange.
nextSortOrder(so) == IF so = "asc" THEN "desc" ELSE "asc"

toggledDates_addOnly(sel, d) == sel \cup {format_yyyyMMdd(d, "-")}

\* toggleDateFilter: the new set of selected keys.
toggledDates(sel, d) ==
    LET dateKey == format_yyyyMMdd(d, "-")
    IN  IF dateKey \in sel THEN sel \ {dateKey} ELSE sel \cup {dateKey}

\* ------------------------------------------------------------- the table
\* The options of the duration select.
DurationOptions == {1, 2, 3, 7, 14, 21, 28}

\* A unit of the bike list, with the fields the table reads.
TableBike(id, name, pricing, bookings, isLoading) ==
    [variantId |-> id, name |-> name, pricing |-> Some(pricing),
     bookings |-> bookings, isLoading |-> isLoading]

NoBookings == [k \in {} |-> TRUE]

\* Units in the states the progressive load leaves them in: loaded with a
\* response, or still pending.
TableBikes ==
    { TableBike("v1", <<"N", "M", "A", "X">>,
                <<RangedTier(1, 6, 110), RangedTier(7, 13, 160), RangedTier(8, 14, 148)>>,
                Some([k \in {ResponseKey(Today, "")} |-> TRUE]), FALSE),
      TableBike("v2", <<"A", "D", "V">>,
                <<RangedTier(1, 6, 110), OpenTier(7, 140)>>,
                Some([k \in {ResponseKey(Today + 2, "_end")} |-> TRUE]), FALSE),
      TableBike("v3", <<"P", "C", "X">>, <<DefaultTier(50)>>, Undefined, TRUE),
      TableBike("v4", <<"M", "T", " ", "0", "7">>, <<>>, Some(NoBookings), FALSE) }

RECURSIVE BikeLists(_)
\* The lists of at most k units with pairwise distinct identifiers.
BikeLists(k) ==
    IF k = 0 THEN {<<>>}
    ELSE LET shorter == BikeLists(k - 1)
             fresh(l) == {x \in TableBikes :
                            \A i \in 1 .. Len(l) : l[i].variantId # x.variantId}
         IN  shorter \cup UNION {{Append(l, b) : b \in fresh(l)} : l \in shorter}

\* Sundays closed, one holiday on the second day shown.
TableSettings ==
    [closures |-> {0},
     disabledDatesGlobal |->
        DisabledDates({<<getFullYear(Today + 1), getMonth(Today + 1) + 1,
                         getDate(Today + 1)>>})]

\* The table as first rendered with a bike list.
InitTable ==
    /\ NoCall
    /\ NoLoad
    /\ bike = Bike(Undefined, Undefined, TRUE)
    /\ globalSettings = TableSettings
    /\ bikes \in BikeLists(MaxBikes)
    /\ duration = 1
    /\ sortOrder = "asc"
    /\ selectedDates = {}
    /\ shown = sortedBikes(bikes, globalSettings, duration, sortOrder, selectedDates)

\* The date columns whose headers get clicked.
ClickedDates == {addDays(Today, i) : i \in 0 .. MaxClicked - 1}

\* A click on a date header.
ToggleDateFilter ==
    \E d \in ClickedDates :
        LET newSet == toggledDates(selectedDates, d)
        IN
        /\ selectedDates' = newSet
        /\ shown' = sortedBikes(bikes, globalSettings, duration, sortOrder, newSet)
        /\ UNCHANGED <<globalSettings, bikes, duration, sortOrder>>
        /\ UNCHANGED engineVars
        /\ UNCHANGED loadVars

\* A click on the Pricing header.
ToggleSort ==
    LET newOrder == nextSortOrder(sortOrder)
    IN
    /\ sortOrder' = newOrder
    /\ shown' = sortedBikes(bikes, globalSettings, duration, newOrder, selectedDates)
    /\ UNCHANGED <<globalSettings, bikes, duration, selectedDates>>
    /\ UNCHANGED engineVars
    /\ UNCHANGED loadVars

\* A choice in the duration select.
SetDuration ==
    \E n \in DurationOptions :
        /\ duration' = n
        /\ shown' = sortedBikes(bikes, globalSettings, n, sortOrder, selectedDates)
        /\ UNCHANGED <<globalSettings, bikes, sortOrder, selectedDates>>
        /\ UNCHANGED engineVars
        /\ UNCHANGED loadVars

NextTable == ToggleDateFilter \/ ToggleSort \/ SetDuration

SpecTable == InitTable /\ [][NextTable]_vars

\* What a click on the Pricing header does to the directive; the steps that
\* change the directive are the steps of ToggleSort.
SortClicked == sortOrder' = nextSortOrder(sortOrder)

\* The table of a user who keeps using the sort button.
SpecTableFair == InitTable /\ [][NextTable]_vars /\ WF_sortOrder(SortClicked)

\* ------------------------------------------------------------- claims: the table
\* The date columns whose key is in the selected-dates set.
SelectedColumns == {d \in dates : format_yyyyMMdd(d, "-") \in selectedDates}

FreeOn(b, d) == getStatus(b, globalSettings, d) \in {"available", "half"}

Kept(b) == selectedDates = {} \/ \E d \in SelectedColumns : FreeOn(b, d)

Displayed(b) == \E i \in 1 .. Len(shown) : shown[i] = b

\* C14: a unit of the bike list is displayed if and only if no date is selected
\* or at least one selected date classifies for it as 'available' or 'half'.
C14_FilterIff ==
    /\ \A i \in 1 .. Len(bikes) : Displayed(bikes[i]) <=> Kept(bikes[i])
    /\ \A i \in 1 .. Len(shown) : \E j \in 1 .. Len(bikes) : bikes[j] = shown[i]

\* Two dates are selected; one unit is booked on one and closed on the other and
\* is left out, another is kept although one of the two dates is closed, its
\* free date being a half day.
C14_Witness ==
    /\ Cardinality(selectedDates) = 2
    /\ \E i \in 1 .. Len(bikes) :
          /\ ~Displayed(bikes[i])
          /\ \E d \in SelectedColumns : getStatus(bikes[i], globalSettings, d) = "booked"
          /\ \E d \in SelectedColumns : getStatus(bikes[i], globalSettings, d) = "closed"
    /\ \E i \in 1 .. Len(bikes) :
          /\ Displayed(bikes[i])
          /\ \E d \in SelectedColumns : getStatus(bikes[i], globalSettings, d) = "closed"
          /\ \E d \in SelectedColumns : getStatus(bikes[i], globalSettings, d) = "half"

\* The price the Pricing column shows for a unit.
ShownPrice(b) == getPriceForDuration(b, duration)

\* The place of a unit in the bike list.
Position(b) == CHOOSE i \in 1 .. Len(bikes) : bikes[i] = b

\* C15: under 'asc' (resp. 'desc') the displayed list is in non-decreasing
\* (resp. non-increasing) order of price at the active duration, and units of
\* equal price keep the relative order they have in the bike list.
C15_StableSort ==
    sortOrder \in {"asc", "desc"} =>
        \A i, j \in 1 .. Len(shown) :
            i < j =>
                /\ IF sortOrder = "asc"
                   THEN Leq(ShownPrice(shown[i]), ShownPrice(shown[j]))
                   ELSE Geq(ShownPrice(shown[i]), ShownPrice(shown[j]))
                /\ ShownPrice(shown[i]) = ShownPrice(shown[j]) =>
                       Position(shown[i]) < Position(shown[j])

\* Descending order with three units shown: two of equal price in their
\* original order, and a dearer unit moved in front of one that preceded it.
C15_Witness ==
    /\ sortOrder = "desc"
    /\ Len(shown) = 3
    /\ \E i, j \in 1 .. 3 :
          /\ i < j
          /\ ShownPrice(shown[i]) = ShownPrice(shown[j])
    /\ \E i, j \in 1 .. 3 :
          /\ i < j
          /\ ShownPrice(shown[i]) # ShownPrice(shown[j])
          /\ Position(shown[i]) > Position(shown[j])

NameOrdered(s) ==
    \A i \in 1 .. Len(s) - 1 : localeCompare(s[i].name, s[i + 1].name) <= 0

LowerCase ==
    << "a", "b", "c", "d", "e", "f", "g", "h", "i", "j", "k", "l", "m",
       "n", "o", "p", "q", "r", "s", "t", "u", "v", "w", "x", "y", "z" >>
UpperCase ==
    << "A", "B", "C", "D", "E", "F", "G", "H", "I", "J", "K", "L", "M",
       "N", "O", "P", "Q", "R", "S", "T", "U", "V", "W", "X", "Y", "Z" >>

\* s.toUpperCase()
toUpperCase(s) ==
    [k \in 1 .. Len(s) |->
        IF \E n \in 1 .. Len(LowerCase) : LowerCase[n] = s[k]
        THEN UpperCase[CHOOSE n \in 1 .. Len(LowerCase) : LowerCase[n] = s[k]]
        ELSE s[k]]

\* s.replace(/-/g, ' ')
replaceDashes(s) == [k \in 1 .. Len(s) |-> IF s[k] = "-" THEN " " ELSE s[k]]

\* s.replace(t, ''): the first occurrence of t is taken out.
removeFirst(s, t) ==
    LET starts == {k \in 1 .. Len(s) - Len(t) + 1 : SubSeq(s, k, k + Len(t) - 1) = t}
    IN  IF starts = {} THEN s
        ELSE LET at == CHOOSE k \in starts : \A m \in starts : k <= m
             IN  SubSeq(s, 1, at - 1) \o SubSeq(s, at + Len(t), Len(s))

\* s.split('/').pop()
lastSegment(s) ==
    LET slashes == {k \in 1 .. Len(s) : s[k] = "/"}
    IN  IF slashes = {} THEN s
        ELSE LET last == CHOOSE k \in slashes : \A m \in slashes : m <= k
             IN  SubSeq(s, last + 1, Len(s))

\* product.handle.replace(/-/g, ' ').replace(' rental', '').toUpperCase()
displayName(handle) ==
    The({toUpperCase(bare) :
            bare \in {removeFirst(spaced, <<" ", "r", "e", "n", "t", "a", "l">>) :
                         spaced \in {replaceDashes(handle)}}})

\* ------------------------------------------------------------- extractBikeMetadata
\* extractGlobalSettings: the settings of the first product that is not null;
\* the defaults when there is none or its metafields do not parse.
extractGlobalSettings(ed) ==
    LET found == {k \in 1 .. Len(ed) : ed[k] # Undefined}
    IN  IF found = {} THEN DefaultSettings
        ELSE LET firstProduct == Get(ed[CHOOSE k \in found : \A m \in found : k <= m])
             IN  IF firstProduct.newMetafields = Undefined THEN DefaultSettings
                 ELSE LET metafields == Get(firstProduct.newMetafields)
                      IN  [closures |-> IF metafields.closures = Undefined THEN {0}
                                        ELSE Get(metafields.closures),
                           disabledDatesGlobal |->
                               IF metafields.disabledDatesGlobal = Undefined
                               THEN DisabledDates({})
                               ELSE Get(metafields.disabledDatesGlobal)]

\* The evaluation of the object given to bikes.push throws a TypeError.
constructionThrows(product, variantData) ==
    \/ variantData = Undefined
    \/ product.id = Undefined
    \/ product.handle = Undefined

newBike_loaded(product, variantId, variantData, images) ==
    [handle |-> product.handle,
     productId |-> lastSegment(Get(product.id)),
     variantId |-> variantId,
     name |-> displayName(Get(product.handle)),
     imageUrl |-> IF Get(product.handle) \in DOMAIN images
                  THEN Some(images[Get(product.handle)]) ELSE Undefined,
     pricing |-> IF Get(variantData).prices = Undefined THEN Some(<<>>)
                 ELSE Some(Get(Get(variantData).prices)),
     bookings |-> Some([k \in {} |-> TRUE]),
     isLoading |-> FALSE]

\* The object pushed for a variant.
newBike(product, variantId, variantData, images) ==
    [handle |-> product.handle,
     productId |-> lastSegment(Get(product.id)),
     variantId |-> variantId,
     name |-> displayName(Get(product.handle)),
     imageUrl |-> IF Get(product.handle) \in DOMAIN images
                  THEN Some(images[Get(product.handle)]) ELSE Undefined,
     pricing |-> IF Get(variantData).prices = Undefined THEN Some(<<>>)
                 ELSE Some(Get(Get(variantData).prices)),
     bookings |-> Undefined,
     isLoading |-> TRUE]

isDuplicate_never(seenVariantIds, variantId) == FALSE

\* seenVariantIds.has(variantId)
isDuplicate(seenVariantIds, variantId) == variantId \in seenVariantIds

RECURSIVE visitVariants(_, _, _, _)
\* The forEach over the entries of one product's variantStock, from the state
\* acc = (bikes, seenVariantIds); a throw ends the product's forEach and is
\* caught, what was done before it stays.
visitVariants(product, entries, images, acc) ==
    IF entries = <<>> THEN acc
    ELSE LET variantId == Head(entries)[1]
             variantData == Head(entries)[2]
         IN  IF variantId = "product"
             THEN visitVariants(product, Tail(entries), images, acc)
             ELSE IF isDuplicate(acc.seenVariantIds, variantId)
             THEN visitVariants(product, Tail(entries), images, acc)
             ELSE LET seen == acc.seenVariantIds \cup {variantId}
                  IN  IF constructionThrows(product, variantData)
                      THEN [bikes |-> acc.bikes, seenVariantIds |-> seen]
                      ELSE visitVariants(product, Tail(entries), images,
                               [bikes |-> Append(acc.bikes,
                                              newBike(product, variantId, variantData, images)),
                                seenVariantIds |-> seen])

RECURSIVE visitProducts(_, _, _)
\* The forEach over the entries of exampleData.data.
visitProducts(ed, images, acc) ==
    IF ed = <<>> THEN acc
    ELSE IF Head(ed) = Undefined
    THEN visitProducts(Tail(ed), images, acc)
    ELSE LET product == Get(Head(ed))
         IN  IF product.newMetafields = Undefined
             THEN visitProducts(Tail(ed), images, acc)
             ELSE visitProducts(Tail(ed), images,
                      visitVariants(product, Get(product.newMetafields).variantStock,
                                    images, acc))

\* extractBikeMetadata(exampleData, imageMap), for an exampleData with a data object.
extractBikeMetadata(ed, images) ==
    [bikes |-> visitProducts(ed, images, [bikes |-> <<>>, seenVariantIds |-> {}]).bikes,
     globalSettings |-> extractGlobalSettings(ed)]

\* ------------------------------------------------------------- the catalog
\* Largest number of products of example.json.
MaxProducts == 2

\* A product of exampleData.data. newMetafields is what JSON.parse makes of
\* newMetafields.value, <<>> when it throws; variantStock is the sequence of
\* its entries, a key occurring once.
Product(handle, id, metafields) ==
    [handle |-> handle, id |-> id, newMetafields |-> metafields]

Metafields(variantStock, closures, disabledDatesGlobal) ==
    [variantStock |-> variantStock, closures |-> closures,
     disabledDatesGlobal |-> disabledDatesGlobal]

VariantData(prices) == Some([prices |-> prices])

PcxHandle == <<"p", "c", "x", "-", "1", "2", "5", "-", "r", "e", "n", "t", "a", "l">>
NmaxHandle == <<"n", "m", "a", "x", "-", "r", "e", "n", "t", "a", "l">>
AdvHandle == <<"a", "d", "v">>
Mt07Handle == <<"m", "t", "-", "0", "7", "-", "r", "e", "n", "t", "a", "l">>

Products ==
    { \* null
      Undefined,
      \* two variants after the 'product' entry, Sundays closed by default
      Some(Product(Some(PcxHandle), Some(<<"g", "i", "d", ":", "/", "/", "p", "/", "7">>),
              Some(Metafields(
                  << <<"product", VariantData(Undefined)>>,
                     <<"v1", VariantData(Some(<<RangedTier(1, 6, 110), RangedTier(7, 13, 160)>>))>>,
                     <<"v2", VariantData(Undefined)>> >>,
                  Undefined,
                  Some(DisabledDates({<<getFullYear(Today + 1), getMonth(Today + 1) + 1,
                                        getDate(Today + 1)>>})))))),
      \* shares v2 with the product above, at another price
      Some(Product(Some(NmaxHandle), Some(<<"8">>),
              Some(Metafields(
                  << <<"v2", VariantData(Some(<<DefaultTier(50)>>))>>,
                     <<"v3", VariantData(Some(<<RangedTier(1, 6, 110)>>))>> >>,
                  Some({0, 1}), Undefined)))),
      \* metafields that do not parse
      Some(Product(Some(AdvHandle), Some(<<"9">>), Undefined)),
      \* no id: the construction of its units throws
      Some(Product(Some(Mt07Handle), Undefined,
              Some(Metafields(
                  << <<"v3", VariantData(Some(<<OpenTier(7, 140)>>))>>,
                     <<"v1", VariantData(Some(<<DefaultTier(50)>>))>> >>,
                  Some({}), Undefined)))) }

RECURSIVE Catalogs(_)
\* The data objects of at most k entries.
Catalogs(k) ==
    IF k = 0 THEN {<<>>}
    ELSE LET shorter == Catalogs(k - 1)
         IN  shorter \cup {Append(l, q) : l \in shorter, q \in Products}

\* The contents of example.json: with a data object, or without one.
ExampleFiles == {[data |-> Some(c)] : c \in Catalogs(MaxProducts)} \cup {[data |-> Undefined]}

\* The results of fetchProductImages: the map of a response, {} after a failure.
NoImages == [h \in {} |-> ""]
ImageResults == {NoImages, [h \in {PcxHandle} |-> "pcx.jpg"]}

\* The bodies of booking responses.
LoadResponses == {NoBookings, [k \in {ResponseKey(Today, "")} |-> TRUE]}

\* ------------------------------------------------------------- loadData
\* The null that globalSettings holds before the extraction.
null == [null |-> TRUE]

Event(ev, n) == [ev |-> ev, n |-> n]

logExtracting_silent(tr) == tr

\* console.log('[Fetch] Extracting bike metadata...'), the first statement of
\* extractBikeMetadata.
logExtracting(tr) == Append(tr, Event("extracting", 0))

\* bikes.length > 0 && globalSettings && data
hasData(bs, gs, dt) == Len(bs) > 0 /\ gs # null /\ dt # Undefined

\* The sortedBikes of the render: the table is mounted only under hasData.
tableOf(bs, gs, dt, dur, so, sel) ==
    IF hasData(bs, gs, dt) THEN sortedBikes(bs, gs, dur, so, sel) ELSE <<>>

fetchBookings_undefinedOnFailure(outcome) ==
    IF outcome.ok THEN Some(outcome.body) ELSE Undefined

\* fetchBookings: the body of the response, {} when the request fails or times out.
fetchBookings(outcome) ==
    IF outcome.ok THEN Some(outcome.body) ELSE Some(NoBookings)

\* What a booking request ends with.
Outcomes ==
    {[ok |-> TRUE, body |-> r] : r \in LoadResponses}
        \cup {[ok |-> FALSE, body |-> NoBookings]}

onBikeUpdate_everyUnit(prevBikes, variantId, bookingData) ==
    [k \in 1 .. Len(prevBikes) |->
        [prevBikes[k] EXCEPT !.bookings = bookingData.bookings,
                             !.isLoading = bookingData.isLoading]]

onBikeUpdate_bookingsOnly(prevBikes, variantId, bookingData) ==
    [k \in 1 .. Len(prevBikes) |->
        IF prevBikes[k].variantId = variantId
        THEN [prevBikes[k] EXCEPT !.bookings = bookingData.bookings]
        ELSE prevBikes[k]]

onBikeUpdate_alsoLoaded(prevBikes, variantId, bookingData) ==
    [k \in 1 .. Len(prevBikes) |->
        IF prevBikes[k].variantId = variantId \/ ~prevBikes[k].isLoading
        THEN [prevBikes[k] EXCEPT !.bookings = bookingData.bookings,
                                  !.isLoading = bookingData.isLoading]
        ELSE prevBikes[k]]

\* onBikeUpdate: prevBikes.map(bike => bike.variantId === variantId
\*                                       ? { ...bike, ...bookingData } : bike)
onBikeUpdate(prevBikes, variantId, bookingData) ==
    [k \in 1 .. Len(prevBikes) |->
        IF prevBikes[k].variantId = variantId
        THEN [prevBikes[k] EXCEPT !.bookings = bookingData.bookings,
                                  !.isLoading = bookingData.isLoading]
        ELSE prevBikes[k]]

resumeLoop_requestBeforeProgress(k, total, st, dt, tr) ==
    IF k < total
    THEN [pc |-> "request",
          loopIndex |-> k,
          loadingStatus |-> [loaded |-> k + 1, total |-> total, isComplete |-> FALSE],
          data |-> dt,
          trace |-> tr \o <<Event("request", k), Event("onProgress", k + 1)>>]
    ELSE [pc |-> "done",
          loopIndex |-> k,
          loadingStatus |-> [st EXCEPT !.isComplete = TRUE],
          data |-> Some([lastUpdated |-> "complete"]),
          trace |-> Append(tr, Event("onComplete", k))]

resumeLoop_completeUnreported(k, total, st, dt, tr) ==
    IF k < total
    THEN [pc |-> "request",
          loopIndex |-> k,
          loadingStatus |-> [loaded |-> k + 1, total |-> total, isComplete |-> FALSE],
          data |-> dt,
          trace |-> tr \o <<Event("onProgress", k + 1), Event("request", k)>>]
    ELSE [pc |-> "done",
          loopIndex |-> k,
          loadingStatus |-> st,
          data |-> dt,
          trace |-> tr]

resumeLoop_zeroBasedProgress(k, total, st, dt, tr) ==
    IF k < total
    THEN [pc |-> "request",
          loopIndex |-> k,
          loadingStatus |-> [loaded |-> k, total |-> total, isComplete |-> FALSE],
          data |-> dt,
          trace |-> tr \o <<Event("onProgress", k + 1), Event("request", k)>>]
    ELSE [pc |-> "done",
          loopIndex |-> k,
          loadingStatus |-> [st EXCEPT !.isComplete = TRUE],
          data |-> Some([lastUpdated |-> "complete"]),
          trace |-> Append(tr, Event("onComplete", k))]

\* fetchBookingsProgressively from the head of iteration k to its next await:
\* onProgress and the request of unit k, or onComplete after the last unit.
resumeLoop(k, total, st, dt, tr) ==
    IF k < total
    THEN [pc |-> "request",
          loopIndex |-> k,
          loadingStatus |-> [loaded |-> k + 1, total |-> total, isComplete |-> FALSE],
          data |-> dt,
          trace |-> tr \o <<Event("onProgress", k + 1), Event("request", k)>>]
    ELSE [pc |-> "done",
          loopIndex |-> k,
          loadingStatus |-> [st EXCEPT !.isComplete = TRUE],
          data |-> Some([lastUpdated |-> "complete"]),
          trace |-> Append(tr, Event("onComplete", k))]

LoadError == Some("Failed to load data. Please ensure example.json is in the public folder.")

\* The page as mounted: loadData is suspended at fetch('/example.json').
InitLoad ==
    /\ NoCall
    /\ NoTable
    /\ bike = Bike(Undefined, Undefined, TRUE)
    /\ globalSettings = null
    /\ exampleData = Undefined
    /\ imageMap = NoImages
    /\ initialData = Undefined
    /\ data = Undefined
    /\ error = Undefined
    /\ loadingStatus = [loaded |-> 0, total |-> 0, isComplete |-> FALSE]
    /\ pc = "fetchExample"
    /\ loopIndex = 0
    /\ trace = <<>>

\* example.json arrives and parses.
ExampleArrives ==
    /\ pc = "fetchExample"
    /\ \E f \in ExampleFiles : exampleData' = Some(f)
    /\ pc' = "fetchImages"
    /\ UNCHANGED <<globalSettings, imageMap, initialData, data, error, loadingStatus,
                   loopIndex, trace>>
    /\ UNCHANGED tableVars
    /\ UNCHANGED engineVars

\* The fetch of example.json fails or its body is not JSON: the catch of loadData.
ExampleFails ==
    /\ pc = "fetchExample"
    /\ error' = LoadError
    /\ pc' = "failed"
    /\ UNCHANGED <<globalSettings, exampleData, imageMap, initialData, data,
                   loadingStatus, loopIndex, trace>>
    /\ UNCHANGED tableVars
    /\ UNCHANGED engineVars

\* fetchProductImages settles; loadData runs on to the first booking request:
\* the extraction, the four state setters, and fetchBookingsProgressively up to
\* its first await.
ImagesSettle ==
    /\ pc = "fetchImages"
    /\ \E ok \in BOOLEAN : \E images \in ImageResults :
          /\ ok \/ images = NoImages
          /\ imageMap' = images
          /\ LET ed == Get(exampleData)
                 tr0 == logExtracting(IF ok THEN trace
                                      ELSE Append(trace, Event("imagesFailed", 0)))
             IN  IF ed.data = Undefined
                 THEN /\ error' = LoadError
                      /\ pc' = "failed"
                      /\ trace' = tr0
                      /\ UNCHANGED <<globalSettings, initialData, data, loadingStatus,
                                     loopIndex, bikes, shown>>
                 ELSE \E initial \in {extractBikeMetadata(Get(ed.data), images)} :
                      \E total \in {Len(initial.bikes)} :
                      \E r \in {resumeLoop(0, total,
                                    [loaded |-> 0, total |-> total, isComplete |-> FALSE],
                                    Some([lastUpdated |-> "extracted"]),
                                    Append(tr0, Event("setBikes", total)))} :
                          /\ initialData' = Some(initial)
                          /\ bikes' = initial.bikes
                          /\ globalSettings' = initial.globalSettings
                          /\ data' = r.data
                          /\ loadingStatus' = r.loadingStatus
                          /\ pc' = r.pc
                          /\ loopIndex' = r.loopIndex
                          /\ trace' = r.trace
                          /\ shown' = tableOf(initial.bikes, initial.globalSettings, r.data,
                                              duration, sortOrder, selectedDates)
                          /\ UNCHANGED error
    /\ UNCHANGED <<exampleData, duration, sortOrder, selectedDates>>
    /\ UNCHANGED engineVars

\* The booking request of unit loopIndex settles; fetchBookingsProgressively
\* runs on to its next await: onBikeUpdate, then the next unit or onComplete.
BookingSettles ==
    /\ pc = "request"
    /\ \E outcome \in Outcomes :
          \E list \in {Get(initialData).bikes} :
          \E unit \in {list[loopIndex + 1]} :
          \E bookings \in {fetchBookings(outcome)} :
          \E updated \in {onBikeUpdate(bikes, unit.variantId,
                                       [bookings |-> bookings, isLoading |-> FALSE])} :
          \E r \in {resumeLoop(loopIndex + 1, Len(list), loadingStatus, data,
                        trace \o <<Event(IF outcome.ok THEN "response" ELSE "failure", loopIndex),
                                   Event("onBikeUpdate", loopIndex)>>)} :
              /\ bikes' = updated
              /\ data' = r.data
              /\ loadingStatus' = r.loadingStatus
              /\ pc' = r.pc
              /\ loopIndex' = r.loopIndex
              /\ trace' = r.trace
              /\ shown' = tableOf(updated, globalSettings, r.data,
                                  duration, sortOrder, selectedDates)
    /\ UNCHANGED <<globalSettings, exampleData, imageMap, initialData, error,
                   duration, sortOrder, selectedDates>>
    /\ UNCHANGED engineVars

NextLoad == ExampleArrives \/ ExampleFails \/ ImagesSettle \/ BookingSettles

SpecLoad == InitLoad /\ [][NextLoad]_vars

\* The product-image request settles: loadData leaves its await.
ImagesSettled == pc = "fetchImages" /\ pc' \in {"request", "done", "failed"}
\* The booking request in flight settles: the loop goes on to the next unit.
BookingSettled == pc = "request" /\ loopIndex' = loopIndex + 1

\* The load when every request that was issued settles: a response, a failure,
\* or for a booking request the timeout of 10 s.
SpecLoadFair ==
    InitLoad /\ [][NextLoad]_vars /\ WF_pc(ImagesSettled) /\ WF_loopIndex(BookingSettled)

\* ------------------------------------------------------------- the table during the load
\* Number of date columns, from today on, whose header the user clicks while
\* the bookings load.
MaxFiltered == 2

FilterDates == {addDays(Today, i) : i \in 0 .. MaxFiltered - 1}

\* A click on a date header of the table the App has mounted.
ToggleDateFilterMounted ==
    /\ error = Undefined
    /\ hasData(bikes, globalSettings, data)
    /\ \E d \in FilterDates : \E newSet \in {toggledDates(selectedDates, d)} :
          /\ selectedDates' = newSet
          /\ shown' = sortedBikes(bikes, globalSettings, duration, sortOrder, newSet)
    /\ UNCHANGED <<globalSettings, bikes, duration, sortOrder>>
    /\ UNCHANGED engineVars
    /\ UNCHANGED loadVars

NextApp == NextLoad \/ ToggleDateFilterMounted

\* The load with a user who filters by date while it runs.
SpecApp == InitLoad /\ [][NextApp]_vars

\* ------------------------------------------------------------- claims: the load
\* extractBikeMetadata has returned.
Extracted == initialData # Undefined
\* The bike list it returned.
ExtractedBikes == Get(initialData).bikes
\* The entries of exampleData.data.
Catalog == Get(Get(exampleData).data)

\* Entry k is a product whose metafields parse.
Readable(k) == Catalog[k] # Undefined /\ Get(Catalog[k]).newMetafields # Undefined
RecordsOf(k) == Get(Get(Catalog[k]).newMetafields).variantStock
\* Product k has a record of the variant identifier v.
Holds(k, v) == Readable(k) /\ \E m \in 1 .. Len(RecordsOf(k)) : RecordsOf(k)[m][1] = v
RecordOf(k, v) ==
    RecordsOf(k)[CHOOSE m \in 1 .. Len(RecordsOf(k)) : RecordsOf(k)[m][1] = v][2]
Holders(v) == {k \in 1 .. Len(Catalog) : Holds(k, v)}
Identifiers ==
    UNION {{RecordsOf(k)[m][1] : m \in 1 .. Len(RecordsOf(k))} :
              k \in {n \in 1 .. Len(Catalog) : Readable(n)}} \ {"product"}
UnitsOf(v) == {j \in 1 .. Len(ExtractedBikes) : ExtractedBikes[j].variantId = v}
\* The pricing a unit built from the record r has.
PricingFrom(r) ==
    IF r = Undefined THEN Undefined
    ELSE IF Get(r).prices = Undefined THEN Some(<<>>) ELSE Some(Get(Get(r).prices))

\* C17: when two or more records of the catalog share a variant identifier,
\* the extracted bike list holds exactly one unit with that identifier, built
\* from the first of them in source order.
C17_FirstOccurrenceKept ==
    Extracted =>
        \A v \in Identifiers :
            Cardinality(Holders(v)) >= 2 =>
                /\ Cardinality(UnitsOf(v)) = 1
                /\ \A j \in UnitsOf(v) :
                      \A first \in Holders(v) :
                          (\A k \in Holders(v) : first <= k) =>
                              /\ ExtractedBikes[j].handle = Get(Catalog[first]).handle
                              /\ ExtractedBikes[j].pricing = PricingFrom(RecordOf(first, v))

\* C18: the arrival of booking data for the unit requested changes only the
\* bookings and isLoading fields of the unit with that identifier; every other
\* field of it, every other unit, the length and order of the bike list and
\* the closure rules stay as they are.
C18_UpdateFrame ==
    [][ pc = "request" =>
          LET v == ExtractedBikes[loopIndex + 1].variantId
          IN  /\ Len(bikes') = Len(bikes)
              /\ \A k \in 1 .. Len(bikes) :
                    IF bikes[k].variantId = v
                    THEN bikes'[k] = [bikes[k] EXCEPT !.bookings = bikes'[k].bookings,
                                                      !.isLoading = bikes'[k].isLoading]
                    ELSE bikes'[k] = bikes[k]
              /\ globalSettings' = globalSettings ]_vars

\* The first unit has its booking data, with a booked date, while the second
\* is still pending and untouched.
C18_Witness ==
    /\ pc = "request"
    /\ loopIndex = 1
    /\ bikes[1].isLoading = FALSE
    /\ bikes[1].bookings # Undefined
    /\ DOMAIN Get(bikes[1].bookings) # {}
    /\ bikes[1].name = ExtractedBikes[1].name
    /\ bikes[1].pricing = ExtractedBikes[1].pricing
    /\ bikes[2] = ExtractedBikes[2]
    /\ bikes[2].isLoading

\* The number of events of the kinds evs in the trace.
Count(evs) == Cardinality({k \in 1 .. Len(trace) : trace[k].ev \in evs})
\* The App shows the table.
TableVisible == hasData(bikes, globalSettings, data)

\* C19: while no booking request has completed, the table is visible with
\* every unit's bike info present and every unit pending; once a request has
\* completed the table is visible too, and every onBikeUpdate comes after the
\* bike list was set.
C19_TableBeforeBookings ==
    /\ (pc = "request" /\ Count({"response", "failure"}) = 0) =>
          /\ TableVisible
          /\ Len(shown) = Len(bikes)
          /\ \A k \in 1 .. Len(bikes) :
                /\ bikes[k].isLoading
                /\ bikes[k].bookings = Undefined
                /\ bikes[k].name # <<>>
                /\ bikes[k].handle # Undefined
                /\ bikes[k].pricing # Undefined
                /\ \A d \in dates : getStatus(bikes[k], globalSettings, d) = "loading"
    /\ Count({"response", "failure"}) > 0 => TableVisible
    /\ \A k \in 1 .. Len(trace) :
          trace[k].ev = "onBikeUpdate" =>
              \E m \in 1 .. k - 1 : trace[m].ev = "setBikes"

\* The table shows two or more units, all pending, and the first request is
\* still in flight.
C19_Witness ==
    /\ pc = "request"
    /\ Count({"response", "failure"}) = 0
    /\ TableVisible
    /\ Len(bikes) >= 2
    /\ Len(shown) = Len(bikes)
    /\ loadingStatus.loaded = 1
    /\ \A k \in 1 .. Len(bikes) : bikes[k].isLoading

\* C20: after a booking request of a unit has failed or timed out the app is
\* not in its error state, the unit has an empty booking map and isLoading
\* false, none of its dates is 'booked', and the request of the next unit has
\* been issued (or, after the last unit, the load has completed).
C20_FailureIsEmptyMap ==
    \A k \in 1 .. Len(trace) :
        trace[k].ev = "failure" =>
            LET at == trace[k].n + 1
            IN  /\ error = Undefined
                /\ pc # "failed"
                /\ bikes[at].bookings = Some(NoBookings)
                /\ bikes[at].isLoading = FALSE
                /\ \A d \in dates : getStatus(bikes[at], globalSettings, d) # "booked"
                /\ IF at < Len(bikes)
                   THEN \E m \in k + 1 .. Len(trace) :
                            trace[m] = Event("request", at)
                   ELSE pc = "done" /\ loadingStatus.isComplete

\* The request of the first unit failed, the one of the second unit was
\* issued after it and brought a booked date.
C20_Witness ==
    /\ \E k \in 1 .. Len(trace) : trace[k] = Event("failure", 0)
    /\ \E k \in 1 .. Len(trace) : trace[k] = Event("response", 1)
    /\ error = Undefined
    /\ bikes[1].bookings = Some(NoBookings)
    /\ ~bikes[1].isLoading
    /\ \E d \in dates : getStatus(bikes[2], globalSettings, d) = "booked"

Arrived == {k \in 1 .. Len(bikes) : ~bikes[k].isLoading}

\* C22: the identifiers of the units of the bike list are pairwise distinct,
\* after the extraction and after every arrival of booking data.
C22_DistinctIdentifiers ==
    \A j, k \in 1 .. Len(bikes) : j # k => bikes[j].variantId # bikes[k].variantId

\* Two products of the catalog hold the same identifier, the list has three
\* units and the booking data of one of them has arrived.
C22_Witness ==
    /\ Extracted
    /\ \E v \in Identifiers : Cardinality(Holders(v)) = 2
    /\ Len(bikes) = 3
    /\ Cardinality(Arrived) = 1
    /\ Cardinality({bikes[k].variantId : k \in 1 .. Len(bikes)}) = 3

\* The events of fetchBookingsProgressively, in the order they happened.
IsLoopEvent(e) ==
    e.ev \in {"onProgress", "request", "response", "failure", "onBikeUpdate", "onComplete"}
LoopTrace == SelectSeq(trace, IsLoopEvent)
\* The requests issued and not yet settled.
InFlight == Count({"request"}) - Count({"response", "failure"})

\* C23: the booking requests go one at a time in bike-list order: the events
\* of unit i are onProgress(i + 1), the request, its response or failure and
\* onBikeUpdate, in this order and before any event of unit i + 1; at most
\* one request is in flight; onComplete comes once, after the onBikeUpdate of
\* the last unit, and is the last event.
C23_OneAtATime ==
    /\ \A p \in 1 .. Len(LoopTrace) :
          IF LoopTrace[p].ev = "onComplete"
          THEN /\ p = Len(LoopTrace)
               /\ p = 4 * Len(ExtractedBikes) + 1
          ELSE /\ (p - 1) \div 4 < Len(ExtractedBikes)
               /\ CASE (p - 1) % 4 = 0 -> LoopTrace[p] = Event("onProgress", (p - 1) \div 4 + 1)
                    [] (p - 1) % 4 = 1 -> LoopTrace[p] = Event("request", (p - 1) \div 4)
                    [] (p - 1) % 4 = 2 -> LoopTrace[p] \in {Event("response", (p - 1) \div 4),
                                                            Event("failure", (p - 1) \div 4)}
                    [] OTHER -> LoopTrace[p] = Event("onBikeUpdate", (p - 1) \div 4)
    /\ InFlight \in {0, 1}
    /\ InFlight = 1 <=> pc = "request"
    /\ Count({"onComplete"}) = IF pc = "done" THEN 1 ELSE 0

\* Three units were served one after the other, the second request failed,
\* and onComplete was called.
C23_Witness ==
    /\ pc = "done"
    /\ Len(LoopTrace) = 13
    /\ LoopTrace[7] = Event("failure", 1)
    /\ LoopTrace[11] = Event("response", 2)
    /\ LoopTrace[13] = Event("onComplete", 3)

\* The progressive load is over: every unit has its booking data and
\* onComplete has set isComplete.
LoadFinished ==
    /\ loadingStatus.isComplete
    /\ \A k \in 1 .. Len(bikes) : ~bikes[k].isLoading

\* C24: when every booking request settles, the progressive load ends: after
\* the extraction, eventually every unit has isLoading false and
\* loadingStatus.isComplete is true, and it stays so.
C24_LoadTerminates == Extracted ~> [](LoadFinished)

\* The load has ended although every one of its requests failed.
C24_Witness ==
    /\ LoadFinished
    /\ Len(bikes) >= 2
    /\ Count({"failure"}) = Len(bikes)
    /\ Count({"response"}) = 0

\* C25: loadingStatus.loaded is at most loadingStatus.total, is at least the
\* number of units whose booking data has arrived, and is at most one more
\* than that number.
C25_ProgressBounds ==
    /\ loadingStatus.loaded <= loadingStatus.total
    /\ Cardinality(Arrived) <= loadingStatus.loaded
    /\ loadingStatus.loaded <= Cardinality(Arrived) + 1

\* The second of three requests is in flight: two units counted, one arrived.
C25_Witness ==
    /\ pc = "request"
    /\ loadingStatus.total = 3
    /\ loadingStatus.loaded = 2
    /\ Cardinality(Arrived) = 1

\* C26: when loadingStatus.isComplete is true, every unit of the bike list
\* has isLoading false and loadingStatus.loaded equals loadingStatus.total.
C26_CompleteMeansAllLoaded ==
    loadingStatus.isComplete =>
        /\ \A k \in 1 .. Len(bikes) : ~bikes[k].isLoading
        /\ loadingStatus.loaded = loadingStatus.total
        /\ loadingStatus.total = Len(bikes)

\* The load of three units is complete.
C26_Witness ==
    /\ loadingStatus.isComplete
    /\ Len(bikes) = 3
    /\ loadingStatus.loaded = 3
    /\ Cardinality(Arrived) = 3

\* The number of onBikeUpdate calls for the unit at index n of the list.
UpdatesOf(n) == Cardinality({k \in 1 .. Len(trace) : trace[k] = Event("onBikeUpdate", n)})

\* C27: a unit is pending exactly until its one booking-data update; once its
\* isLoading is false it stays false and its booking map is not replaced, and
\* when the load is over every unit has had exactly one update.
C27_LoadingIsOneWay ==
    /\ [](\A k \in 1 .. Len(bikes) :
             /\ UpdatesOf(k - 1) = IF bikes[k].isLoading THEN 0 ELSE 1
             /\ pc = "done" => UpdatesOf(k - 1) = 1)
    /\ [][\A k \in 1 .. Len(bikes) :
             ~bikes[k].isLoading =>
                 /\ Len(bikes') = Len(bikes)
                 /\ bikes'[k].variantId = bikes[k].variantId
                 /\ ~bikes'[k].isLoading
                 /\ bikes'[k].bookings = bikes[k].bookings]_vars

\* The first unit got a booked date, then the data of the second unit
\* arrived, empty: the first unit still has its own map.
C27_Witness ==
    /\ Len(bikes) >= 2
    /\ loopIndex >= 2
    /\ ~bikes[1].isLoading
    /\ ~bikes[2].isLoading
    /\ bikes[1].bookings # Undefined
    /\ DOMAIN Get(bikes[1].bookings) # {}
    /\ bikes[2].bookings = Some(NoBookings)
    /\ UpdatesOf(0) = 1

\* C28: whenever a date is selected, no unit whose booking data has not
\* arrived is in the list displayed; a selection while no data has arrived
\* gives the empty list, and a unit that is displayed under a selection has
\* its booking data.
C28_PendingNeverFiltersIn ==
    selectedDates # {} =>
        /\ \A k \in 1 .. Len(bikes) : bikes[k].isLoading => ~Displayed(bikes[k])
        /\ Arrived = {} => shown = <<>>
        /\ \A i \in 1 .. Len(shown) : ~shown[i].isLoading /\ shown[i].bookings # Undefined

\* A date is selected during the load: the unit whose data has arrived, free on
\* that date, is displayed and the two pending units are not.
C28_Witness ==
    /\ pc = "request"
    /\ selectedDates # {}
    /\ Len(bikes) = 3
    /\ Arrived = {1}
    /\ shown = <<bikes[1]>>
    /\ ~Displayed(bikes[2])
    /\ ~Displayed(bikes[3])

\* The keys of the date columns.
DateKeys == {format_yyyyMMdd(d, "-") : d \in dates}
\* The keys that are in one of the two sets only.
Flipped(S, T) == (S \ T) \cup (T \ S)

\* C29: a toggle of the date d flips the membership of the key of d in the
\* selected-dates set and of no other key; a second toggle of the same date
\* gives the set back, and the toggles of two dates give the same set in
\* either order.
C29_ToggleAlgebra ==
    /\ [](\A d \in dates :
             /\ Flipped(toggledDates(selectedDates, d), selectedDates)
                    = {format_yyyyMMdd(d, "-")}
             /\ toggledDates(toggledDates(selectedDates, d), d) = selectedDates
             /\ \A e \in dates :
                   toggledDates(toggledDates(selectedDates, d), e)
                       = toggledDates(toggledDates(selectedDates, e), d))
    /\ [][selectedDates' # selectedDates =>
             /\ Cardinality(Flipped(selectedDates', selectedDates)) = 1
             /\ Flipped(selectedDates', selectedDates) \subseteq DateKeys]_vars

\* Two dates are selected, today's is not: a toggle of today's column adds
\* its key, a toggle of a selected one takes its key out.
C29_Witness ==
    /\ Cardinality(selectedDates) = 2
    /\ selectedDates \subseteq DateKeys
    /\ format_yyyyMMdd(Today, "-") \notin selectedDates
    /\ format_yyyyMMdd(addDays(Today, 1), "-") \in selectedDates
    /\ Cardinality(toggledDates(selectedDates, Today)) = 3
    /\ Cardinality(toggledDates(selectedDates, addDays(Today, 1))) = 1

\* Product k is well formed: it has an id and a handle, its metafields parse
\* and each of its records has data, so the construction of its units throws
\* nothing.
WellFormed(k) ==
    /\ Readable(k)
    /\ Get(Catalog[k]).id # Undefined
    /\ Get(Catalog[k]).handle # Undefined
    /\ \A m \in 1 .. Len(RecordsOf(k)) : RecordsOf(k)[m][2] # Undefined

\* C30: a product that does not parse or whose construction throws does not
\* abort the extraction, and every variant identifier that occurs in at least
\* one well-formed product is in the extracted bike list exactly once.
C30_MalformedIsolated ==
    /\ (exampleData # Undefined /\ Get(exampleData).data # Undefined /\ pc # "fetchImages")
          => (Extracted /\ error = Undefined)
    /\ Extracted =>
          \A v \in Identifiers :
              (\E k \in Holders(v) : WellFormed(k)) => Cardinality(UnitsOf(v)) = 1

====
